---- MODULE Spec2Model ----
(***************************************************************************)
(* Capital-gains calculation: the Section 104 holding ledger               *)
(* (src/main.py, Holding.add_transaction) and the monthly exchange-rate    *)
(* cache (src/utils/exchange_rate.py).                                     *)
(*                                                                         *)
(* Money is a Python float in the source.  The model computes with exact   *)
(* rationals <<numerator, denominator>> (denominator > 0, lowest terms),   *)
(* so that every equation below is about the arithmetic the code writes    *)
(* down and not about binary rounding.                                     *)
(***************************************************************************)
EXTENDS Integers, Sequences, FiniteSets, TLC

(***************************************************************************)
(* Bounds of the model.                                                    *)
(***************************************************************************)
\* number of rows the driver feeds into one ledger
MaxTx == 3
\* largest share count of a row
MaxQty == 2
\* largest debit / credit amount of a row, in the row's own currency
MaxAmount == 2
\* number of get_exchange_rate calls of one run
MaxCalls == 4

(***************************************************************************)
(* Exact rational arithmetic (Python's float operators + - * /).           *)
(***************************************************************************)
Abs(n) == IF n < 0 THEN -n ELSE n

RECURSIVE GCD(_, _)
GCD(a, b) == IF b = 0 THEN a ELSE GCD(b, a % b)

\* n/d in lowest terms with a positive denominator (d # 0)
Norm(n, d) ==
    LET g == GCD(Abs(n), Abs(d))
        s == IF d < 0 THEN -1 ELSE 1
    IN  <<(s * n) \div g, Abs(d) \div g>>

Rat(n) == <<n, 1>>
RAdd(a, b) == Norm(a[1] * b[2] + b[1] * a[2], a[2] * b[2])
RNeg(a) == <<-a[1], a[2]>>
RSub(a, b) == RAdd(a, RNeg(b))
RMul(a, b) == Norm(a[1] * b[1], a[2] * b[2])
\* a / b, defined for b # 0 (Python raises ZeroDivisionError otherwise)
RDiv(a, b) == Norm(a[1] * b[2], a[2] * b[1])
RGeq0(a) == a[1] >= 0

Min(a, b) == IF a <= b THEN a ELSE b

(***************************************************************************)
(* Transaction (src/main.py:20-64).  A row carries the fields the ledger   *)
(* reads; description and reference are the CSV strings, debit and credit  *)
(* the parsed amounts (parse_maybe_price gives 0 for a blank cell).        *)
(***************************************************************************)
\* timedelta(days=30) of the bed-and-breakfast window
Window == 30

\* transaction dates as day numbers: same day, 1 day apart, exactly Window
\* apart and more than Window apart all occur
Dates == {0, Window, Window + 1}

\* the parsed monthly table of the exchange-rate provider, as the ledger
\* sees it through Transaction.exchange_rate
rates_on_date == [c \in {"USD"} |-> 2]

\* Transaction.exchange_rate: get_exchange_rate(self._currency, date)
exchange_rate(t) ==
    IF t.currency = "GBP" THEN 1 ELSE rates_on_date[t.currency]

StartsWith(s, p) == Len(s) >= Len(p) /\ SubSeq(s, 1, Len(p)) = p

DivPrefix == <<"D", "i", "v", " ">>

Type(t) ==
    IF StartsWith(t.description, DivPrefix) THEN "DIV "
    ELSE IF t.symbol # "" /\ t.reference # ""
         THEN IF t.debit > 0 THEN "BUY " ELSE "SELL"
         ELSE "CASH"

balance_change(t) == IF t.credit > 0 THEN t.credit ELSE -t.debit

balance_change_gbp(t) ==
    RDiv(Rat(balance_change(t)), Rat(exchange_rate(t)))

\* Transaction.__init__: quantity_repurchased starts at quantity, the gain
\* at 0 and the explanation empty
Transaction(date, description, reference, quantity, debit, credit, currency) ==
    [transaction_date |-> date,
     symbol |-> "VOD",
     description |-> description,
     reference |-> reference,
     quantity |-> quantity,
     quantity_repurchased |-> quantity,
     debit |-> debit,
     credit |-> credit,
     currency |-> currency,
     gain_loss_gbp |-> Rat(0),
     gain_loss_explanation |-> <<>>]

Currencies == {"GBP", "USD"}

\* The rows of one symbol that the driver can read from the CSV: purchases
\* (a reference and a debit), sales (a reference and a credit), dividends
\* ("Div ..." description) and cash movements (no reference).
Rows ==
    {Transaction(d, <<"B", "u", "y">>, "R1", q, a, 0, c) :
        d \in Dates, q \in 1..MaxQty, a \in 1..MaxAmount, c \in Currencies}
    \cup
    {Transaction(d, <<"S", "e", "l", "l">>, "R2", q, 0, a, c) :
        d \in Dates, q \in 1..MaxQty, a \in 1..MaxAmount, c \in Currencies}
    \cup
    {Transaction(d, <<"D", "i", "v", " ", "X">>, "", 0, 0, 1, c) :
        d \in Dates, c \in Currencies}
    \cup
    {Transaction(d, <<"F", "e", "e">>, "", 0, 1, 0, c) :
        d \in Dates, c \in Currencies}

(***************************************************************************)
(* Holding (src/main.py:88-130).  One ledger: the Section 104 pool and the *)
(* transactions added so far.  outcome, new_transaction and before record  *)
(* how the last add_transaction call ended, its argument as the call left  *)
(* it, and the ledger as it was when the call started.                     *)
(***************************************************************************)
VARIABLES pool_quantity, pool_average_price_gbp, transactions,
          outcome, new_transaction, before

(***************************************************************************)
(* The exchange-rate cache directory (src/utils/exchange_rate.py): the     *)
(* files present with their content, and what the calls did so far.        *)
(***************************************************************************)
VARIABLES cache, fetches, writes, calls, last_call

(***************************************************************************)
(* The driver's dictionary of ledgers (src/main.py:157-163): holdings maps *)
(* the symbols seen so far to their Holding; fed keeps the rows dispatched *)
(* to each symbol as they came, dispatch_outcome how the last call ended   *)
(* and last_symbol whose ledger it was.                                    *)
(***************************************************************************)
VARIABLES holdings, fed, dispatch_outcome, last_symbol

ledger_vars == <<pool_quantity, pool_average_price_gbp, transactions,
                 outcome, new_transaction, before>>
cache_vars == <<cache, fetches, writes, calls, last_call>>
driver_vars == <<holdings, fed, dispatch_outcome, last_symbol>>
vars == <<ledger_vars, cache_vars, driver_vars>>

Holding == [pool_quantity |-> pool_quantity,
            pool_average_price_gbp |-> pool_average_price_gbp,
            transactions |-> transactions]

\* faulty variant of the same-day test: dividends and cash rows are not
\* exempted
same_day_any_kind(txs, new) ==
    SelectSeq(txs, LAMBDA t :
        /\ t.transaction_date = new.transaction_date
        /\ Type(t) = Type(new))

\* main.py:96
existing_same_day_transactions(txs, new) ==
    SelectSeq(txs, LAMBDA t :
        /\ t.transaction_date = new.transaction_date
        /\ Type(t) \notin {"DIV ", "CASH"}
        /\ Type(t) = Type(new))

\* main.py:102, as positions in the history (the list holds references to
\* the transactions of the history, which the loop below mutates in place)
sale_in_last_30_days(txs, new) ==
    SelectSeq([k \in 1..Len(txs) |-> k], LAMBDA k :
        /\ txs[k].transaction_date >= new.transaction_date - Window
        /\ Type(txs[k]) = "SELL")

\* faulty variant of the matched lot: the sale's remaining shares do not cap it
b_and_b_shares_uncapped(sale, quantity_not_b_and_b) == quantity_not_b_and_b

\* main.py:109
b_and_b_shares(sale, quantity_not_b_and_b) ==
    Min(sale.quantity_repurchased, quantity_not_b_and_b)

\* a faulty variant of matched_gain_loss: the repurchase price is left out
matched_gain_loss_sale_price_only(sale, new, shares) ==
    RDiv(RMul(Rat(shares), balance_change_gbp(sale)), Rat(sale.quantity))

\* main.py:111-113: what one matched lot adds to the purchase's gain
matched_gain_loss(sale, new, shares) ==
    LET sale_price ==
            RDiv(RMul(Rat(shares), balance_change_gbp(sale)), Rat(sale.quantity))
        repurchase_price ==
            RDiv(RMul(Rat(shares), balance_change_gbp(new)), Rat(new.quantity))
    IN  RAdd(sale_price, repurchase_price)

\* main.py:115: the loop moves to the next sale
sale_consumed(sale, shares) == shares = sale.quantity

(***************************************************************************)
(* main.py:106-117, the matching loop.  The result is the loop's state at  *)
(* exit, or diverges = TRUE with the state in which the loop body no       *)
(* longer changes i, quantity_not_b_and_b or any quantity_repurchased, so  *)
(* that the loop condition stays true for ever.                            *)
(***************************************************************************)
RECURSIVE MatchLoop(_, _, _, _, _)
MatchLoop(sales, i, quantity_not_b_and_b, txs, new) ==
    IF ~(quantity_not_b_and_b > 0 /\ i < Len(sales))
    THEN [diverges |-> FALSE, transactions |-> txs, new |-> new,
          quantity_not_b_and_b |-> quantity_not_b_and_b]
    ELSE
        LET k == sales[i + 1]
            sale == txs[k]
            shares == b_and_b_shares(sale, quantity_not_b_and_b)
            txs2 == [txs EXCEPT ![k].quantity_repurchased = @ - shares]
            new2 == [new EXCEPT
                       !.gain_loss_gbp = RAdd(@, matched_gain_loss(sale, new, shares)),
                       !.gain_loss_explanation =
                           Append(@, <<"Bought back", shares, sale.transaction_date>>)]
            i2 == IF sale_consumed(sale, shares) THEN i + 1 ELSE i
        IN  IF shares = 0 /\ i2 = i
            THEN [diverges |-> TRUE, transactions |-> txs, new |-> new,
                  quantity_not_b_and_b |-> quantity_not_b_and_b]
            ELSE MatchLoop(sales, i2, quantity_not_b_and_b - shares, txs2, new2)

\* faulty variant of the provisional credit: the purchase is not credited
provisional_pool_quantity_skipped(quantity, new) == quantity

\* main.py:104: the purchase's whole quantity enters the pool before matching
provisional_pool_quantity(quantity, new) == quantity + new.quantity

\* faulty variant of the pool average: the new shares are not weighted in
pool_average_unweighted(quantity, average, new) ==
    RDiv(RAdd(RMul(Rat(quantity), average), RNeg(balance_change_gbp(new))),
         Rat(quantity + 1))

\* main.py:122: the average after a purchase that matches no sale
pool_average_after_acquisition(quantity, average, new) ==
    RDiv(RAdd(RMul(Rat(quantity), average), RNeg(balance_change_gbp(new))),
         Rat(quantity + new.quantity))

\* main.py:119: the average after the unmatched rest of a matched purchase;
\* quantity is the pool quantity at that line
pool_average_after_leftover(quantity, average, new, quantity_not_b_and_b) ==
    RDiv(RAdd(RMul(Rat(quantity), average),
              RDiv(RMul(Rat(-quantity_not_b_and_b), balance_change_gbp(new)),
                   Rat(new.quantity))),
         Rat(quantity + quantity_not_b_and_b))

\* faulty variant of the disposal gain: the cost of one share is deducted
disposal_gain_loss_one_share(average, new) ==
    RSub(balance_change_gbp(new), average)

\* main.py:126
disposal_gain_loss(average, new) ==
    RSub(balance_change_gbp(new), RMul(Rat(new.quantity), average))

\* a faulty variant of pool_quantity_after_disposal: the pool is emptied,
\* never overdrawn
pool_quantity_after_disposal_floored(quantity, new) ==
    IF quantity >= new.quantity THEN quantity - new.quantity ELSE 0

\* main.py:127
pool_quantity_after_disposal(quantity, new) == quantity - new.quantity

Result(o, q, a, txs, new) ==
    [outcome |-> o, pool_quantity |-> q, pool_average_price_gbp |-> a,
     transactions |-> txs, new |-> new]

\* main.py:103-120
add_matched_acquisition(h, new) ==
    LET sales == sale_in_last_30_days(h.transactions, new)
        q1 == provisional_pool_quantity(h.pool_quantity, new)
        m == MatchLoop(sales, 0, new.quantity, h.transactions, new)
        left == m.quantity_not_b_and_b
    IN  IF m.diverges
        THEN Result("diverges", q1, h.pool_average_price_gbp, m.transactions, m.new)
        ELSE IF left > 0
        THEN IF q1 + left = 0
             THEN Result("ZeroDivisionError", q1, h.pool_average_price_gbp,
                         m.transactions, m.new)
             ELSE Result("ok", q1,
                         pool_average_after_leftover(q1, h.pool_average_price_gbp,
                                                     new, left),
                         Append(m.transactions,
                                [m.new EXCEPT !.gain_loss_explanation =
                                    Append(@, <<"Added", left>>)]),
                         [m.new EXCEPT !.gain_loss_explanation =
                                    Append(@, <<"Added", left>>)])
        ELSE Result("ok", q1, h.pool_average_price_gbp,
                    Append(m.transactions, m.new), m.new)

\* main.py:121-124
add_unmatched_acquisition(h, new) ==
    IF h.pool_quantity + new.quantity = 0
    THEN Result("ZeroDivisionError", h.pool_quantity, h.pool_average_price_gbp,
                h.transactions, new)
    ELSE LET new2 == [new EXCEPT !.gain_loss_explanation =
                          Append(@, <<"Added", new.quantity>>)]
         IN  Result("ok", h.pool_quantity + new.quantity,
                    pool_average_after_acquisition(h.pool_quantity,
                                                   h.pool_average_price_gbp, new),
                    Append(h.transactions, new2), new2)

\* main.py:125-128
add_disposal(h, new) ==
    LET q1 == pool_quantity_after_disposal(h.pool_quantity, new)
        new2 == [new EXCEPT
                   !.gain_loss_gbp = disposal_gain_loss(h.pool_average_price_gbp, new),
                   !.gain_loss_explanation =
                       Append(@, <<"Sold", new.quantity, q1>>)]
    IN  Result("ok", q1, h.pool_average_price_gbp,
               Append(h.transactions, new2), new2)

\* a faulty variant of add_transaction: the disposal branch is the else of
\* the acquisition branch, so dividends and cash rows run through it
add_transaction_else_disposal(h, new) ==
    IF existing_same_day_transactions(h.transactions, new) # <<>>
    THEN Result("NotImplementedError", h.pool_quantity, h.pool_average_price_gbp,
                h.transactions, new)
    ELSE IF Type(new) = "BUY "
    THEN IF sale_in_last_30_days(h.transactions, new) # <<>>
         THEN add_matched_acquisition(h, new)
         ELSE add_unmatched_acquisition(h, new)
    ELSE add_disposal(h, new)

\* a faulty variant of add_transaction: the same-day test is made after
\* the pool and the matched disposals were updated
add_transaction_checked_last(h, new) ==
    LET r == IF Type(new) = "BUY "
             THEN IF sale_in_last_30_days(h.transactions, new) # <<>>
                  THEN add_matched_acquisition(h, new)
                  ELSE add_unmatched_acquisition(h, new)
             ELSE IF Type(new) = "SELL"
             THEN add_disposal(h, new)
             ELSE Result("ok", h.pool_quantity, h.pool_average_price_gbp,
                         Append(h.transactions, new), new)
    IN  IF existing_same_day_transactions(h.transactions, new) # <<>> /\ r.outcome = "ok"
        THEN Result("NotImplementedError", r.pool_quantity,
                    r.pool_average_price_gbp, r.transactions, r.new)
        ELSE r

\* main.py:95-130, the whole call
add_transaction(h, new) ==
    IF existing_same_day_transactions(h.transactions, new) # <<>>
    THEN Result("NotImplementedError", h.pool_quantity, h.pool_average_price_gbp,
                h.transactions, new)
    ELSE IF Type(new) = "BUY "
    THEN IF sale_in_last_30_days(h.transactions, new) # <<>>
         THEN add_matched_acquisition(h, new)
         ELSE add_unmatched_acquisition(h, new)
    ELSE IF Type(new) = "SELL"
    THEN add_disposal(h, new)
    ELSE Result("ok", h.pool_quantity, h.pool_average_price_gbp,
                Append(h.transactions, new), new)

(***************************************************************************)
(* The driver (src/main.py:154-163) sorts the rows by transaction date and *)
(* feeds them to the ledger one by one; an exception ends the run.  Each   *)
(* action below is one whole add_transaction call on one path of the code. *)
(***************************************************************************)
NoTransaction == Transaction(0, <<>>, "", 0, 0, 0, "GBP")

LedgerInit ==
    /\ pool_quantity = 0
    /\ pool_average_price_gbp = Rat(0)
    /\ transactions = <<>>
    /\ outcome = "none"
    /\ new_transaction = NoTransaction
    /\ before = [pool_quantity |-> 0, pool_average_price_gbp |-> Rat(0),
                 transactions |-> <<>>]

\* sorted(transactions, key=transaction_date): a row is never older than
\* the rows fed before it
InDateOrder(t) ==
    IF transactions = <<>> THEN TRUE
    ELSE transactions[Len(transactions)].transaction_date <= t.transaction_date

\* Transaction.__init__ takes the currency from the running balance, so
\* the rows of one account share it
InAccountCurrency(t) ==
    IF transactions = <<>> THEN TRUE
    ELSE transactions[1].currency = t.currency

\* the run goes on while no call has raised and rows are left
Running ==
    /\ outcome \in {"none", "ok"}
    /\ Len(transactions) < MaxTx

Fed(t) ==
    /\ InDateOrder(t)
    /\ InAccountCurrency(t)

Call(t) ==
    LET r == add_transaction(Holding, t)
    IN  /\ pool_quantity' = r.pool_quantity
        /\ pool_average_price_gbp' = r.pool_average_price_gbp
        /\ transactions' = r.transactions
        /\ outcome' = r.outcome
        /\ new_transaction' = r.new
        /\ before' = Holding
        /\ UNCHANGED <<cache_vars, driver_vars>>

\* main.py:97-99: the call raises NotImplementedError
SameDayTrading ==
    /\ Running
    /\ \E t \in Rows :
        /\ Fed(t)
        /\ existing_same_day_transactions(transactions, t) # <<>>
        /\ Call(t)

\* main.py:121-124: a purchase with no sale in the window
Acquisition ==
    /\ Running
    /\ \E t \in Rows :
        /\ Fed(t)
        /\ existing_same_day_transactions(transactions, t) = <<>>
        /\ Type(t) = "BUY "
        /\ sale_in_last_30_days(transactions, t) = <<>>
        /\ Call(t)

\* main.py:103-120: a purchase with sales in the window
BedAndBreakfast ==
    /\ Running
    /\ \E t \in Rows :
        /\ Fed(t)
        /\ existing_same_day_transactions(transactions, t) = <<>>
        /\ Type(t) = "BUY "
        /\ sale_in_last_30_days(transactions, t) # <<>>
        /\ Call(t)

\* main.py:125-128
Disposal ==
    /\ Running
    /\ \E t \in Rows :
        /\ Fed(t)
        /\ existing_same_day_transactions(transactions, t) = <<>>
        /\ Type(t) = "SELL"
        /\ Call(t)

\* neither branch: the row is only appended
DividendOrCash ==
    /\ Running
    /\ \E t \in Rows :
        /\ Fed(t)
        /\ Type(t) \in {"DIV ", "CASH"}
        /\ Call(t)

(***************************************************************************)
(* The driver with several symbols (src/main.py:157-163): every row goes   *)
(* to the ledger of its symbol, which is made when the symbol is first     *)
(* seen.  The rows of one symbol come in date order; rows of different     *)
(* symbols come in any order.                                              *)
(***************************************************************************)
MaxFed == 3

Symbols == {"VOD", "BARC"}

\* the rows of one symbol: trades, dividends and fees of 1.00 GBP
SymbolRows(symbol) ==
    {[t EXCEPT !.symbol = symbol] :
        t \in {r \in Rows : r.currency = "GBP" /\ r.debit + r.credit = 1}}

\* main.py:88-93, Holding(symbol)
NewHolding ==
    [pool_quantity |-> 0, pool_average_price_gbp |-> Rat(0), transactions |-> <<>>]

\* a faulty variant of holding_for: every symbol is given the ledger that
\* was made first
holding_for_first_made(hs, symbol) ==
    IF DOMAIN hs = {} THEN NewHolding
    ELSE IF "VOD" \in DOMAIN hs THEN hs["VOD"] ELSE hs["BARC"]

\* main.py:161-163: holdings[t.symbol], made when the symbol is new
holding_for(hs, symbol) ==
    IF symbol \in DOMAIN hs THEN hs[symbol] ELSE NewHolding

DriverInit ==
    /\ holdings = [s \in {} |-> NewHolding]
    /\ fed = [s \in Symbols |-> <<>>]
    /\ dispatch_outcome = "none"
    /\ last_symbol = "none"

RowsFed == Len(fed["VOD"]) + Len(fed["BARC"])

\* the loop at main.py:159 goes on while no call has raised
Dispatching ==
    /\ dispatch_outcome \in {"none", "ok"}
    /\ RowsFed < MaxFed

\* the rows of one symbol keep the order of the sort at main.py:155
InSymbolDateOrder(t) ==
    IF fed[t.symbol] = <<>> THEN TRUE
    ELSE fed[t.symbol][Len(fed[t.symbol])].transaction_date <= t.transaction_date

\* main.py:160-163 for one row
Dispatch(t) ==
    LET r == add_transaction(holding_for(holdings, t.symbol), t)
    IN  /\ InSymbolDateOrder(t)
        /\ holdings' = [s \in DOMAIN holdings \cup {t.symbol} |->
                           IF s = t.symbol
                           THEN [pool_quantity |-> r.pool_quantity,
                                 pool_average_price_gbp |-> r.pool_average_price_gbp,
                                 transactions |-> r.transactions]
                           ELSE holdings[s]]
        /\ fed' = [fed EXCEPT ![t.symbol] = Append(@, t)]
        /\ dispatch_outcome' = r.outcome
        /\ last_symbol' = t.symbol
        /\ UNCHANGED <<ledger_vars, cache_vars>>

\* main.py:161-163: the first row of a symbol makes its ledger
FirstRowOfSymbol ==
    /\ Dispatching
    /\ \E symbol \in Symbols \ DOMAIN holdings :
          \E t \in SymbolRows(symbol) : Dispatch(t)

\* main.py:163: a further row of a symbol
FurtherRowOfSymbol ==
    /\ Dispatching
    /\ \E symbol \in DOMAIN holdings :
          \E t \in SymbolRows(symbol) : Dispatch(t)

(***************************************************************************)
(* Exchange-rate provider (src/utils/exchange_rate.py).  A date is a       *)
(* record [year, month, day]; the cache directory is a function from the   *)
(* names of the files present to their content; a remote response is the   *)
(* body of a successful request or "error" (the request or                 *)
(* raise_for_status raised).                                               *)
(***************************************************************************)
Years == {2023, 2024}
Months == {11, 12}
Days == {1, 2}
CalendarDates == [year : Years, month : Months, day : Days]

CacheCurrencies == {"GBP", "USD", "EUR"}

\* bodies the remote endpoints can answer with
Bodies == {"ratesA", "ratesB"}
Responses == Bodies \cup {"error"}

\* exchange_rate.py:24-29: the table an XML body parses to
ParseRates(body) ==
    IF body = "ratesA"
    THEN [c \in {"USD"} |-> 2]
    ELSE [c \in {"USD", "EUR"} |-> 3]

\* on < datetime(2023, 12, 1)
BeforeCutover(on) ==
    \/ on.year < 2023
    \/ on.year = 2023 /\ on.month < 12

\* exchange_rate.py:41-44; '%m%y' is the month and the year's last two digits
rates_filename_for(on) ==
    IF BeforeCutover(on)
    THEN <<"exrates-monthly-", on.month, on.year % 100, ".XML">>
    ELSE <<"monthly_xml_", on.year, on.month, ".xml">>

\* faulty variant of the cache test: the file is always taken to be absent
cache_file_always_missing(files, required_file) == TRUE

\* exchange_rate.py:19: not os.path.exists(...)
cache_file_missing(files, required_file) == required_file \notin DOMAIN files

\* exchange_rate.py:20-23
rates_url_for(on, required_file) ==
    IF BeforeCutover(on)
    THEN <<"http://www.hmrc.gov.uk/softwaredevelopers/rates/", required_file>>
    ELSE <<"https://www.trade-tariff.service.gov.uk/api/v2/exchange_rates/files/",
           required_file>>

\* a faulty variant of cache_rates_from_hmrc: opens the file for writing
\* before it asks the remote, so a failed fetch leaves a file behind
cache_rates_from_hmrc_open_first(files, filename, response) ==
    [raised |-> response = "error",
     files |-> [f \in DOMAIN files \cup {filename} |->
                   IF f = filename THEN response ELSE files[f]]]

\* exchange_rate.py:32-38: open(..., "wb") creates or replaces the file
cache_rates_from_hmrc(files, filename, response) ==
    IF response = "error"
    THEN [raised |-> TRUE, files |-> files]
    ELSE [raised |-> FALSE,
          files |-> [f \in DOMAIN files \cup {filename} |->
                        IF f = filename THEN response ELSE files[f]]]

\* exchange_rate.py:17-29
load_rates_on_date(files, on, response) ==
    LET required_file == rates_filename_for(on)
    IN  IF cache_file_missing(files, required_file)
        THEN LET c == cache_rates_from_hmrc(files, required_file, response)
             IN  IF c.raised
                 THEN [error |-> "RequestException", files |-> c.files,
                       requests |-> <<rates_url_for(on, required_file)>>,
                       written |-> {}, read |-> {},
                       lookup |-> [x \in {} |-> 0]]
                 ELSE [error |-> "none", files |-> c.files,
                       requests |-> <<rates_url_for(on, required_file)>>,
                       written |-> {required_file}, read |-> {required_file},
                       lookup |-> ParseRates(c.files[required_file])]
        ELSE [error |-> "none", files |-> files, requests |-> <<>>,
              written |-> {}, read |-> {required_file},
              lookup |-> ParseRates(files[required_file])]

\* a faulty variant of get_exchange_rate: no short cut for GBP
get_exchange_rate_without_short_cut(files, currency, on, response) ==
    LET l == load_rates_on_date(files, on, response)
    IN  IF l.error # "none"
        THEN [error |-> l.error, value |-> 0, files |-> l.files,
              requests |-> l.requests, written |-> l.written, read |-> l.read]
        ELSE IF currency \notin DOMAIN l.lookup
        THEN [error |-> "KeyError", value |-> 0, files |-> l.files,
              requests |-> l.requests, written |-> l.written, read |-> l.read]
        ELSE [error |-> "none", value |-> l.lookup[currency],
              files |-> l.files, requests |-> l.requests,
              written |-> l.written, read |-> l.read]

\* exchange_rate.py:10-14
get_exchange_rate(files, currency, on, response) ==
    IF currency = "GBP"
    THEN [error |-> "none", value |-> 1, files |-> files,
          requests |-> <<>>, written |-> {}, read |-> {}]
    ELSE LET l == load_rates_on_date(files, on, response)
         IN  IF l.error # "none"
             THEN [error |-> l.error, value |-> 0, files |-> l.files,
                   requests |-> l.requests, written |-> l.written,
                   read |-> l.read]
             ELSE IF currency \notin DOMAIN l.lookup
             THEN [error |-> "KeyError", value |-> 0, files |-> l.files,
                   requests |-> l.requests, written |-> l.written,
                   read |-> l.read]
             ELSE [error |-> "none", value |-> l.lookup[currency],
                   files |-> l.files, requests |-> l.requests,
                   written |-> l.written, read |-> l.read]

CalendarMonth(on) == <<on.year, on.month>>
CalendarMonths == {CalendarMonth(on) : on \in CalendarDates}
Filenames == {rates_filename_for(on) : on \in CalendarDates}

CacheInit ==
    /\ cache = [f \in {} |-> "none"]
    /\ fetches = [m \in CalendarMonths |-> 0]
    /\ writes = [f \in Filenames |-> 0]
    /\ calls = 0
    /\ last_call = [currency |-> "none", on |-> [year |-> 0, month |-> 0, day |-> 0],
                    response |-> "none", error |-> "none", value |-> 0,
                    requests |-> <<>>, written |-> {}, read |-> {},
                    files_before |-> [f \in {} |-> "none"]]

\* one get_exchange_rate call; fetches counts the successful requests of a
\* calendar month, writes the times a file was written
Lookup(currency, on, response) ==
    LET r == get_exchange_rate(cache, currency, on, response)
        fetched == r.requests # <<>> /\ r.error # "RequestException"
    IN  /\ calls < MaxCalls
        /\ calls' = calls + 1
        /\ cache' = r.files
        /\ fetches' = IF fetched
                      THEN [fetches EXCEPT ![CalendarMonth(on)] = @ + 1]
                      ELSE fetches
        /\ writes' = [f \in Filenames |->
                        IF f \in r.written THEN writes[f] + 1 ELSE writes[f]]
        /\ last_call' = [currency |-> currency, on |-> on,
                         response |-> response, error |-> r.error,
                         value |-> r.value, requests |-> r.requests,
                         written |-> r.written, read |-> r.read,
                         files_before |-> cache]
        /\ UNCHANGED <<ledger_vars, driver_vars>>

\* the GBP short cut
RateOfSterling(currency, on) ==
    /\ currency = "GBP"
    /\ Lookup(currency, on, "error")

\* the month's file is in the cache
RateFromCache(currency, on) ==
    /\ currency # "GBP"
    /\ ~cache_file_missing(cache, rates_filename_for(on))
    /\ Lookup(currency, on, "error")

\* the month's file is absent and the remote answers with response
RateFromRemote(currency, on, response) ==
    /\ currency # "GBP"
    /\ cache_file_missing(cache, rates_filename_for(on))
    /\ Lookup(currency, on, response)

(***************************************************************************)
(* Specifications: Spec is one run of the driver on one ledger, CacheSpec  *)
(* a sequence of rate lookups on one cache directory.                      *)
(***************************************************************************)
Init == LedgerInit /\ CacheInit /\ DriverInit

Next ==
    \/ SameDayTrading
    \/ Acquisition
    \/ BedAndBreakfast
    \/ Disposal
    \/ DividendOrCash

Spec == Init /\ [][Next]_vars

CacheNext ==
    \E on \in CalendarDates :
        \/ \E currency \in CacheCurrencies : RateOfSterling(currency, on)
        \/ \E currency \in CacheCurrencies : RateFromCache(currency, on)
        \/ \E currency \in CacheCurrencies, response \in Responses :
              RateFromRemote(currency, on, response)

CacheSpec == Init /\ [][CacheNext]_vars

DriverNext ==
    \/ FirstRowOfSymbol
    \/ FurtherRowOfSymbol

DriverSpec == Init /\ [][DriverNext]_vars

(***************************************************************************)
(* Properties of the ledger, checked under Spec.  A call has been made in  *)
(* every state with outcome # "none"; new_transaction is its argument and  *)
(* before the ledger it started from.                                      *)
(***************************************************************************)
Accepted == outcome = "ok"

LastRow == transactions[Len(transactions)]

\* the cost of one share of a purchase, -balanceChangeGBP / quantity
UnitCostGBP(t) == RDiv(RNeg(balance_change_gbp(t)), Rat(t.quantity))

\* C1: an accepted disposal's gain is its proceeds minus quantity times the
\* pool average of before the call, and the pool shrinks by its quantity.
C1_DisposalGainLoss ==
    (Accepted /\ Type(new_transaction) = "SELL") =>
        /\ LastRow = new_transaction
        /\ new_transaction.gain_loss_gbp =
              RSub(balance_change_gbp(new_transaction),
                   RMul(Rat(new_transaction.quantity),
                        before.pool_average_price_gbp))
        /\ pool_quantity = before.pool_quantity - new_transaction.quantity

\* a pool of 2 bought at 1 each, 1 share sold for 2: gain 1, pool 1
C1_Witness ==
    /\ Accepted
    /\ Type(new_transaction) = "SELL"
    /\ before.pool_quantity = 2
    /\ before.pool_average_price_gbp = Rat(1)
    /\ new_transaction.quantity = 1
    /\ balance_change_gbp(new_transaction) = Rat(2)
    /\ new_transaction.gain_loss_gbp = Rat(1)
    /\ pool_quantity = 1

\* the history holds no disposal dated within the 30 days up to t's date
NoDisposalInLast30Days(txs, t) ==
    \A k \in 1..Len(txs) :
        Type(txs[k]) = "SELL" =>
            ~(/\ t.transaction_date - Window <= txs[k].transaction_date
              /\ txs[k].transaction_date <= t.transaction_date)

RECURSIVE TotalCostGBP(_)
TotalCostGBP(txs) ==
    IF txs = <<>> THEN Rat(0)
    ELSE RAdd(RNeg(balance_change_gbp(Head(txs))), TotalCostGBP(Tail(txs)))

RECURSIVE TotalQuantity(_)
TotalQuantity(txs) ==
    IF txs = <<>> THEN 0 ELSE Head(txs).quantity + TotalQuantity(Tail(txs))

OnlyAcquisitions(txs) == \A k \in 1..Len(txs) : Type(txs[k]) = "BUY "

RECURSIVE BoughtBackIn(_, _)
BoughtBackIn(explanation, d) ==
    IF explanation = <<>> THEN 0
    ELSE (IF Head(explanation)[1] = "Bought back" /\ Head(explanation)[3] = d
          THEN Head(explanation)[2] ELSE 0)
         + BoughtBackIn(Tail(explanation), d)

RECURSIVE MatchedShares(_, _)
MatchedShares(txs, d) ==
    IF txs = <<>> THEN 0
    ELSE BoughtBackIn(Head(txs).gain_loss_explanation, d)
         + MatchedShares(Tail(txs), d)

\* C3: no disposal has more shares matched by later acquisitions than it
\* sold: 0 <= quantity_repurchased <= quantity, and the shares the
\* acquisitions record as bought back from it are those it no longer has.
C3_MatchedWithinQuantity ==
    \A k \in 1..Len(transactions) :
        Type(transactions[k]) = "SELL" =>
            /\ 0 <= transactions[k].quantity_repurchased
            /\ transactions[k].quantity_repurchased <= transactions[k].quantity
            /\ MatchedShares(transactions, transactions[k].transaction_date)
                  <= transactions[k].quantity
            /\ Accepted =>
                  MatchedShares(transactions, transactions[k].transaction_date)
                     = transactions[k].quantity
                          - transactions[k].quantity_repurchased

\* a sale of 2 bought back by two later acquisitions of 1 each
C3_Witness ==
    /\ Accepted
    /\ Len(transactions) = 3
    /\ Type(transactions[1]) = "SELL"
    /\ transactions[1].quantity = 2
    /\ transactions[1].quantity_repurchased = 0
    /\ Type(transactions[2]) = "BUY "
    /\ Type(transactions[3]) = "BUY "
    /\ MatchedShares(transactions, transactions[1].transaction_date) = 2

SameDaySameKind(txs, t) ==
    \E k \in 1..Len(txs) :
        /\ txs[k].transaction_date = t.transaction_date
        /\ Type(txs[k]) = Type(t)

\* C4: a call fails with the same-day error whenever the history holds a
\* row of the new row's date and kind and the kind is an acquisition or a
\* disposal; it never fails so for a dividend or a cash row.
C4_SameDaySameKind ==
    outcome # "none" =>
        /\ (/\ Type(new_transaction) \in {"BUY ", "SELL"}
            /\ SameDaySameKind(before.transactions, new_transaction))
               => outcome = "NotImplementedError"
        /\ Type(new_transaction) \in {"DIV ", "CASH"}
               => outcome # "NotImplementedError"

\* a second acquisition on the day of an earlier one is refused
C4_Witness ==
    /\ outcome = "NotImplementedError"
    /\ Type(new_transaction) = "BUY "
    /\ SameDaySameKind(before.transactions, new_transaction)
    /\ transactions = before.transactions

\* a dividend on the day of an earlier dividend is accepted
C4_WitnessDividend ==
    /\ Accepted
    /\ Type(new_transaction) = "DIV "
    /\ SameDaySameKind(before.transactions, new_transaction)

\* the history before the call holds a row of kind on the new row's date
SameDayOfKind(txs, t, kind) ==
    \E k \in 1..Len(txs) :
        /\ txs[k].transaction_date = t.transaction_date
        /\ Type(txs[k]) = kind

\* C5: an acquisition on the day of an earlier disposal, or a disposal on
\* the day of an earlier acquisition, fails with the same-day error.
C5_SameDayOppositeRejected ==
    (/\ outcome # "none"
     /\ \/ /\ Type(new_transaction) = "BUY "
           /\ SameDayOfKind(before.transactions, new_transaction, "SELL")
        \/ /\ Type(new_transaction) = "SELL"
           /\ SameDayOfKind(before.transactions, new_transaction, "BUY "))
        => outcome = "NotImplementedError"

\* The last call was an accepted acquisition of N shares that is entirely
\* matched against the disposal at position k: a disposal of N shares, none
\* of them bought back before, dated within the 30 days up to the
\* acquisition, all N of them bought back by this call.
EntirelyMatchedAgainst(k) ==
    /\ Accepted
    /\ Type(new_transaction) = "BUY "
    /\ k \in 1..Len(before.transactions)
    /\ Type(before.transactions[k]) = "SELL"
    /\ new_transaction.transaction_date - Window
          <= before.transactions[k].transaction_date
    /\ before.transactions[k].quantity = new_transaction.quantity
    /\ before.transactions[k].quantity_repurchased = new_transaction.quantity
    /\ transactions[k].quantity_repurchased = 0

\* no two acquisitions or disposals of the history share a date
TradeDatesDistinct(txs) ==
    \A j, k \in 1..Len(txs) :
        (/\ j < k
         /\ Type(txs[j]) \in {"BUY ", "SELL"}
         /\ Type(txs[k]) \in {"BUY ", "SELL"})
            => txs[j].transaction_date # txs[k].transaction_date

\* no disposal of the history sold more than the pool held: the pool
\* quantity its explanation records is not negative
NeverOversold(txs) ==
    \A k \in 1..Len(txs) :
        Type(txs[k]) = "SELL" => txs[k].gain_loss_explanation[1][3] >= 0

\* a history with neither same-day trades nor overselling
Orderly == TradeDatesDistinct(transactions) /\ NeverOversold(transactions)

\* what one share of a disposal fetched
UnitProceedsGBP(t) == RDiv(balance_change_gbp(t), Rat(t.quantity))

\* C6 as stated: the entirely matched acquisition leaves the pool quantity
\* as it was immediately before the acquisition (already so in histories
\* with neither same-day trades nor overselling).
C6_AcquisitionAddsNoShares ==
    \A k \in 1..Len(before.transactions) :
        (Orderly /\ EntirelyMatchedAgainst(k))
            => pool_quantity = before.pool_quantity

\* C6 as amended: the entirely matched acquisition still credits its whole
\* quantity N to the pool: the pool quantity after it is the quantity
\* immediately before it plus N.
C6_AcquisitionCreditsPool ==
    \A k \in 1..Len(before.transactions) :
        EntirelyMatchedAgainst(k) =>
            pool_quantity = before.pool_quantity + new_transaction.quantity

\* 2 shares sold and 2 bought back at another price within the window
C6_Witness ==
    \E k \in 1..Len(before.transactions) :
        /\ EntirelyMatchedAgainst(k)
        /\ new_transaction.quantity = 2
        /\ before.transactions[k].transaction_date
              < new_transaction.transaction_date
        /\ UnitProceedsGBP(before.transactions[k]) # UnitCostGBP(new_transaction)
        /\ pool_quantity = before.pool_quantity + 2

\* C7: after the entirely matched acquisition at a different price, the
\* disposal's own gain is its proceeds minus the repurchase cost (already
\* so in histories with neither same-day trades nor overselling).
C7_DisposalGainRecomputed ==
    \A k \in 1..Len(before.transactions) :
        (/\ Orderly
         /\ EntirelyMatchedAgainst(k)
         /\ UnitProceedsGBP(before.transactions[k]) # UnitCostGBP(new_transaction))
            => transactions[k].gain_loss_gbp =
                  RAdd(balance_change_gbp(transactions[k]),
                       balance_change_gbp(new_transaction))

RECURSIVE TotalBalanceChangeGBP(_)
TotalBalanceChangeGBP(txs) ==
    IF txs = <<>> THEN Rat(0)
    ELSE RAdd(IF Type(Head(txs)) \in {"BUY ", "SELL"}
              THEN balance_change_gbp(Head(txs)) ELSE Rat(0),
              TotalBalanceChangeGBP(Tail(txs)))

RECURSIVE TotalGainLossGBP(_)
TotalGainLossGBP(txs) ==
    IF txs = <<>> THEN Rat(0)
    ELSE RAdd(Head(txs).gain_loss_gbp, TotalGainLossGBP(Tail(txs)))

\* C8: after accepted calls only, the balance changes of the acquisitions
\* and disposals sum to the sum of all gains minus pool quantity times pool
\* average (already so in histories with neither same-day trades nor
\* overselling).
C8_CostBasisConservation ==
    (outcome \in {"none", "ok"} /\ Orderly) =>
        TotalBalanceChangeGBP(transactions) =
            RSub(TotalGainLossGBP(transactions),
                 RMul(Rat(pool_quantity), pool_average_price_gbp))

\* C9: after accepted calls only, the pool quantity and the pool average
\* are not negative (already so in histories without same-day trades).
C9_PoolNonNegative ==
    (outcome \in {"none", "ok"} /\ TradeDatesDistinct(transactions)) =>
        /\ pool_quantity >= 0
        /\ RGeq0(pool_average_price_gbp)

(***************************************************************************)
(* Properties of the exchange-rate cache, checked under CacheSpec.         *)
(***************************************************************************)
\* C10: a cache file is written only when it was absent and the request
\* succeeded; a file that exists is neither rewritten nor requested again;
\* the dates of one calendar month share one file; so no calendar month is
\* fetched successfully more than once.
C10_CacheWriteOnce ==
    /\ \A f \in last_call.written :
          /\ f \notin DOMAIN last_call.files_before
          /\ f = rates_filename_for(last_call.on)
          /\ last_call.requests # <<>>
          /\ last_call.error # "RequestException"
    /\ \A f \in DOMAIN last_call.files_before :
          /\ f \in DOMAIN cache
          /\ cache[f] = last_call.files_before[f]
    /\ rates_filename_for(last_call.on) \in DOMAIN last_call.files_before
          => last_call.requests = <<>>
    /\ DOMAIN cache = DOMAIN last_call.files_before \cup last_call.written
    /\ \A a, b \in CalendarDates :
          CalendarMonth(a) = CalendarMonth(b)
             => rates_filename_for(a) = rates_filename_for(b)
    /\ \A f \in Filenames : writes[f] <= 1
    /\ \A m \in CalendarMonths : fetches[m] <= 1

\* a month fetched on one day is served from its file on another day, after
\* a failed request and with a second month cached
C10_Witness ==
    /\ calls = MaxCalls
    /\ last_call.currency = "USD"
    /\ last_call.error = "none"
    /\ last_call.requests = <<>>
    /\ last_call.on.day = 2
    /\ fetches[CalendarMonth(last_call.on)] = 1
    /\ writes[rates_filename_for(last_call.on)] = 1
    /\ Cardinality(DOMAIN cache) = 2

(***************************************************************************)
(* Where cost-basis conservation and the sign of the pool hold: the        *)
(* bed-and-breakfast branch and overselling are the only ways to lose      *)
(* them.                                                                   *)
(***************************************************************************)
\* no acquisition of the history was matched against a disposal
NothingBoughtBack(txs) ==
    \A k \in 1..Len(txs) :
        \A n \in 1..Len(txs[k].gain_loss_explanation) :
            txs[k].gain_loss_explanation[n][1] # "Bought back"

ConservationWithoutMatching ==
    (outcome \in {"none", "ok"} /\ NothingBoughtBack(transactions)) =>
        TotalBalanceChangeGBP(transactions) =
            RSub(TotalGainLossGBP(transactions),
                 RMul(Rat(pool_quantity), pool_average_price_gbp))

PoolNonNegativeWithoutOverselling ==
    (outcome \in {"none", "ok"} /\ NeverOversold(transactions)) =>
        /\ pool_quantity >= 0
        /\ RGeq0(pool_average_price_gbp)

(***************************************************************************)
(* Properties of the rate cache, checked under CacheSpec.  last_call is    *)
(* the latest get_exchange_rate call: its arguments, the remote's answer,  *)
(* the cache directory it started from and what it did.                    *)
(***************************************************************************)
Looked == calls > 0
MonthWasCached == rates_filename_for(last_call.on) \in DOMAIN last_call.files_before
CachedTable == ParseRates(last_call.files_before[rates_filename_for(last_call.on)])

\* a failed fetch raises, after one request, and creates nothing
FailedFetchPropagates ==
    (Looked /\ last_call.currency # "GBP" /\ ~MonthWasCached
        /\ last_call.response = "error") =>
        /\ last_call.error = "RequestException"
        /\ Len(last_call.requests) = 1
        /\ last_call.written = {}
        /\ cache = last_call.files_before

C11_WitnessCached ==
    /\ Looked
    /\ last_call.currency = "USD"
    /\ MonthWasCached
    /\ last_call.response = "error"
    /\ last_call.error = "none"
    /\ last_call.value = 3

\* C12: a GBP lookup returns 1 for every date, whatever the cache holds and
\* whatever the remote would answer, and it parses no cache file, writes
\* none and sends no request.
C12_SterlingIsOne ==
    (Looked /\ last_call.currency = "GBP") =>
        /\ last_call.error = "none"
        /\ last_call.value = 1
        /\ last_call.requests = <<>>
        /\ last_call.read = {}
        /\ last_call.written = {}
        /\ cache = last_call.files_before

\* GBP asked for a month that is not cached, with another month cached and
\* the remote down
C12_Witness ==
    /\ Looked
    /\ last_call.currency = "GBP"
    /\ last_call.value = 1
    /\ last_call.response = "error"
    /\ ~MonthWasCached
    /\ Cardinality(DOMAIN cache) = 1

(***************************************************************************)
(* Further properties of the ledger, checked under Spec.                   *)
(***************************************************************************)
Called == outcome # "none"

\* C13: add_transaction returns for every acquisition; the matching loop
\* never runs on for ever, also not when a disposal of the last 30 days has
\* fewer shares left to match than it sold and than the acquisition needs.
C13_MatchingTerminates ==
    (Called /\ Type(new_transaction) = "BUY ") => outcome # "diverges"

\* the disposals of txs dated from D - 30 days up to the day before D
DisposalsStrictlyBefore(txs, t) ==
    SelectSeq([k \in 1..Len(txs) |-> k],
              LAMBDA k : /\ Type(txs[k]) = "SELL"
                         /\ t.transaction_date - Window <= txs[k].transaction_date
                         /\ txs[k].transaction_date < t.transaction_date)

\* the acquisition got as far as looking for disposals to match
LookedForDisposals ==
    /\ Called
    /\ Type(new_transaction) = "BUY "
    /\ outcome # "NotImplementedError"

\* C14: the disposals an acquisition dated D is matched against are exactly
\* those of the history dated d with D - 30 <= d < D; one dated D is not
\* among them.
C14_CandidatesStrictlyBefore ==
    LookedForDisposals =>
        sale_in_last_30_days(before.transactions, new_transaction)
            = DisposalsStrictlyBefore(before.transactions, new_transaction)

\* the shares an acquisition's explanation records as bought back
RECURSIVE BoughtBackBy(_)
BoughtBackBy(explanation) ==
    IF explanation = <<>> THEN 0
    ELSE (IF Head(explanation)[1] = "Bought back" THEN Head(explanation)[2] ELSE 0)
         + BoughtBackBy(Tail(explanation))

Leftover == new_transaction.quantity - BoughtBackBy(new_transaction.gain_loss_explanation)

\* an accepted acquisition that found disposals to match and was matched
\* in part only
PartlyMatched ==
    /\ Accepted
    /\ Type(new_transaction) = "BUY "
    /\ sale_in_last_30_days(before.transactions, new_transaction) # <<>>
    /\ Leftover > 0

\* C15: a partly matched acquisition with L shares left over makes the pool
\* average (P * A + L * unitCost) / (P + L), P and A being the pool of
\* before the call.
C15_LeftoverFoldedIntoPool ==
    (Orderly /\ PartlyMatched /\ before.pool_quantity + Leftover # 0) =>
        pool_average_price_gbp =
            RDiv(RAdd(RMul(Rat(before.pool_quantity), before.pool_average_price_gbp),
                      RMul(Rat(Leftover), UnitCostGBP(new_transaction))),
                 Rat(before.pool_quantity + Leftover))

\* what the claimed matching gives: the disposals are taken in the order of
\* the history, each gives up min(its shares still unmatched, the shares
\* the acquisition still needs)
RECURSIVE ExpectedGainLoss(_, _, _, _)
ExpectedGainLoss(sales, unmatched, txs, new) ==
    IF sales = <<>> \/ unmatched = 0 THEN Rat(0)
    ELSE LET candidate == txs[Head(sales)]
             matchedShares == Min(candidate.quantity_repurchased, unmatched)
         IN  RAdd(RAdd(RDiv(RMul(Rat(matchedShares), balance_change_gbp(candidate)),
                            Rat(candidate.quantity)),
                       RDiv(RMul(Rat(matchedShares), balance_change_gbp(new)),
                            Rat(new.quantity))),
                  ExpectedGainLoss(Tail(sales), unmatched - matchedShares, txs, new))

\* the shares the claimed matching takes from the row at index k
RECURSIVE ExpectedMatchedShares(_, _, _, _)
ExpectedMatchedShares(sales, unmatched, txs, k) ==
    IF sales = <<>> \/ unmatched = 0 THEN 0
    ELSE LET matchedShares == Min(txs[Head(sales)].quantity_repurchased, unmatched)
         IN  IF Head(sales) = k THEN matchedShares
             ELSE ExpectedMatchedShares(Tail(sales), unmatched - matchedShares, txs, k)

\* an accepted acquisition that found disposals to match
MatchedAcquisition ==
    /\ Accepted
    /\ Type(new_transaction) = "BUY "
    /\ sale_in_last_30_days(before.transactions, new_transaction) # <<>>

\* C16: the gain of an accepted matched acquisition is the sum, over the
\* disposals it took shares from, of matchedShares times the disposal's
\* proceeds per share plus matchedShares times its own (negative) cost per
\* share, with matchedShares = min(the disposal's unmatched shares, the
\* shares still to match); each disposal loses exactly its matchedShares
\* and nothing else of the history changes.
C16_MatchedGainLoss ==
    MatchedAcquisition =>
        LET sales == sale_in_last_30_days(before.transactions, new_transaction)
        IN  /\ new_transaction.gain_loss_gbp =
                  ExpectedGainLoss(sales, new_transaction.quantity,
                                   before.transactions, new_transaction)
            /\ LastRow = new_transaction
            /\ \A k \in 1..Len(before.transactions) :
                  transactions[k] =
                      [before.transactions[k] EXCEPT !.quantity_repurchased =
                          @ - ExpectedMatchedShares(sales, new_transaction.quantity,
                                                    before.transactions, k)]

\* an acquisition of 2 shares took one share from each of two disposals,
\* at a gain that is not zero
C16_Witness ==
    /\ MatchedAcquisition
    /\ Len(transactions) = 3
    /\ new_transaction.quantity = 2
    /\ BoughtBackBy(new_transaction.gain_loss_explanation) = 2
    /\ Len(new_transaction.gain_loss_explanation) = 2
    /\ transactions[1].quantity_repurchased = 0
    /\ transactions[2].quantity_repurchased = 0
    /\ new_transaction.gain_loss_gbp # Rat(0)

RECURSIVE QuantityOfType(_, _)
QuantityOfType(txs, type) ==
    IF txs = <<>> THEN 0
    ELSE (IF Type(Head(txs)) = type THEN Head(txs).quantity ELSE 0)
         + QuantityOfType(Tail(txs), type)

\* C17: while every call was accepted the pool quantity is the quantity of
\* all acquisitions of the history minus that of all its disposals, matched
\* or not.
C17_PoolIsBoughtMinusSold ==
    outcome \in {"none", "ok"} =>
        pool_quantity = QuantityOfType(transactions, "BUY ")
                            - QuantityOfType(transactions, "SELL")

\* bought 2, sold 1, bought 1 back
C17_Witness ==
    /\ Accepted
    /\ Orderly
    /\ Len(transactions) = 3
    /\ QuantityOfType(transactions, "SELL") = 1
    /\ MatchedShares(transactions, transactions[2].transaction_date) = 1
    /\ pool_quantity = 2

\* C18: a dividend or cash row is accepted and changes nothing but the
\* history, to which it is appended as it came: the pool, its average,
\* every earlier row and the new row's own fields are as before the call.
C18_DividendAndCashOnlyAppended ==
    (Called /\ Type(new_transaction) \in {"DIV ", "CASH"}) =>
        /\ Accepted
        /\ pool_quantity = before.pool_quantity
        /\ pool_average_price_gbp = before.pool_average_price_gbp
        /\ transactions = Append(before.transactions, new_transaction)
        /\ new_transaction \in Rows

\* a dividend on the day of a disposal that an acquisition could still
\* match, into a pool that holds shares
C18_Witness ==
    /\ Accepted
    /\ Type(new_transaction) = "DIV "
    /\ Len(transactions) = 3
    /\ Type(transactions[2]) = "SELL"
    /\ transactions[2].transaction_date = new_transaction.transaction_date
    /\ pool_quantity = 1
    /\ pool_average_price_gbp # Rat(0)

\* C19: a call that raises the same-day error leaves the ledger as it was:
\* pool, average and history with every row's fields, and the rejected row
\* itself is as it came and not in the history.
C19_RejectionChangesNothing ==
    outcome = "NotImplementedError" =>
        /\ Holding = before
        /\ new_transaction \in Rows

\* a second acquisition on one day is rejected although a disposal of the
\* last 30 days still has shares to match
C19_Witness ==
    /\ outcome = "NotImplementedError"
    /\ Type(new_transaction) = "BUY "
    /\ Len(transactions) = 2
    /\ Type(transactions[1]) = "SELL"
    /\ transactions[1].quantity_repurchased = 1
    /\ Type(transactions[2]) = "BUY "
    /\ transactions[2].transaction_date = new_transaction.transaction_date

(***************************************************************************)
(* Properties of the driver with several symbols, checked under            *)
(* DriverSpec.                                                             *)
(***************************************************************************)
\* the ledger that the rows of one symbol make when nothing else is fed
RECURSIVE Replay(_, _)
Replay(h, rows) ==
    IF rows = <<>> THEN h
    ELSE LET r == add_transaction(h, Head(rows))
         IN  Replay([pool_quantity |-> r.pool_quantity,
                     pool_average_price_gbp |-> r.pool_average_price_gbp,
                     transactions |-> r.transactions],
                    Tail(rows))

\* C20: the ledgers of different symbols do not touch each other: however
\* the rows of the symbols were interleaved, every ledger (pool quantity,
\* average, history with every row's gain) is what the rows of its own
\* symbol, fed alone in their order, make of a new ledger.
C20_LedgersIndependent ==
    \A s \in Symbols :
        IF fed[s] = <<>>
        THEN s \notin DOMAIN holdings
        ELSE /\ s \in DOMAIN holdings
             /\ holdings[s] = Replay(NewHolding, fed[s])

\* a disposal and its buy-back in one ledger, with a row of the other
\* symbol dispatched before the buy-back
C20_Witness ==
    /\ dispatch_outcome = "ok"
    /\ last_symbol = "VOD"
    /\ Len(fed["BARC"]) = 1
    /\ Type(fed["BARC"][1]) = "BUY "
    /\ holdings["BARC"].pool_quantity = 2
    /\ Len(holdings["VOD"].transactions) = 2
    /\ Type(holdings["VOD"].transactions[1]) = "SELL"
    /\ holdings["VOD"].transactions[1].quantity_repurchased = 0
    /\ holdings["VOD"].transactions[2].gain_loss_explanation
          = <<<<"Bought back", 1, 0>>>>

====
